---------------------------- MODULE Spec2Model ----------------------------
(***************************************************************************)
(* DataScrubber: the interactive Node.js front-end of the wiping engine.   *)
(*                                                                         *)
(* The repository holds two front-ends, each a complete program ending in   *)
(* a call of main():                                                       *)
(*   src/index.js          the current front-end  (program = "index.js")   *)
(*   src/unnamed/part_000  the earlier front-end  (program = "part_000")   *)
(* Both spawn the wiping engine main.py, which is not among the sources;    *)
(* what the engine does after it has been spawned is modelled from the      *)
(* design document (the Engine* definitions).                              *)
(*                                                                         *)
(* Strings are modelled as sequences of tokens: a token is a separator      *)
(* ("/", "\\"), a colon, a blank (" "), a dot segment ("." or ".."), or a   *)
(* run of name characters ("dev", "sdb1", "SDB1", "E").                     *)
(***************************************************************************)
EXTENDS Integers, Sequences, FiniteSets, TLC

\* ------------------------------------------------------------------ bounds

\* How many times the operator may choose "wipe" in the main menu.
MaxSessions == 2
\* How many Ctrl+C key presses the operator makes during one wipe.
MaxCtrlC == 1

\* ------------------------------------------------------- sequences, tokens

Last(s) == s[Len(s)]

Front(s) == SubSeq(s, 1, Len(s) - 1)

RECURSIVE Join(_, _)
\* Array.prototype.join for a list of segments, with separator token sep.
Join(segs, sep) ==
    IF Len(segs) = 0 THEN <<>>
    ELSE IF Len(segs) = 1 THEN segs[1]
    ELSE segs[1] \o <<sep>> \o Join(Tail(segs), sep)

\* String.prototype.toLowerCase on one token.
LowerToken(t) ==
    CASE t = "SDB1" -> "sdb1"
      [] t = "SDA1" -> "sda1"
      [] t = "DEV"  -> "dev"
      [] t = "MNT"  -> "mnt"
      [] t = "C"    -> "c"
      [] t = "E"    -> "e"
      [] OTHER      -> t

\* String.prototype.toLowerCase.
toLowerCase(s) == [i \in 1..Len(s) |-> LowerToken(s[i])]

RECURSIVE TrimLeft(_)
TrimLeft(s) == IF Len(s) > 0 /\ s[1] \in {" ", "\n"} THEN TrimLeft(Tail(s)) ELSE s

RECURSIVE TrimRight(_)
TrimRight(s) == IF Len(s) > 0 /\ Last(s) \in {" ", "\n"} THEN TrimRight(Front(s)) ELSE s

\* String.prototype.trim: leading and trailing blanks and line ends removed.
trim(s) == TrimRight(TrimLeft(s))

\* s.replace(/\\$/, ''): one trailing backslash removed.
StripTrailingBackslash(s) ==
    IF Len(s) > 0 /\ Last(s) = "\\" THEN Front(s) ELSE s

\* ------------------------------------------------------------ path module

isPosixPathSeparator(t) == t = "/"

isPathSeparator(t) == t = "/" \/ t = "\\"

IsSepOn(t, win) == IF win THEN isPathSeparator(t) ELSE isPosixPathSeparator(t)

RECURSIVE SplitAcc(_, _, _, _)
\* The segments of s between separators (empty segments kept).
SplitAcc(s, win, cur, acc) ==
    IF Len(s) = 0 THEN Append(acc, cur)
    ELSE IF IsSepOn(s[1], win) THEN SplitAcc(Tail(s), win, <<>>, Append(acc, cur))
    ELSE SplitAcc(Tail(s), win, Append(cur, s[1]), acc)

Split(s, win) == SplitAcc(s, win, <<>>, <<>>)

RECURSIVE NormSegs(_, _, _)
\* normalizeString: "." and empty segments dropped, ".." removes the segment
\* before it (or is kept, above the root of a relative path).
NormSegs(segs, allowAboveRoot, res) ==
    IF Len(segs) = 0 THEN res
    ELSE LET g == segs[1]
             rest == Tail(segs)
         IN  IF g = <<>> \/ g = <<".">> THEN NormSegs(rest, allowAboveRoot, res)
             ELSE IF g = <<"..">>
             THEN IF Len(res) > 0 /\ Last(res) # <<"..">>
                  THEN NormSegs(rest, allowAboveRoot, Front(res))
                  ELSE IF allowAboveRoot
                  THEN NormSegs(rest, allowAboveRoot, Append(res, g))
                  ELSE NormSegs(rest, allowAboveRoot, res)
             ELSE NormSegs(rest, allowAboveRoot, Append(res, g))

normalizeString(s, allowAboveRoot, sep, win) ==
    Join(NormSegs(Split(s, win), allowAboveRoot, <<>>), sep)

\* path.posix.normalize
posixNormalize(p) ==
    IF Len(p) = 0 THEN <<".">>
    ELSE LET isAbsolute == p[1] = "/"
             trailingSeparator == Last(p) = "/"
             body == normalizeString(p, ~isAbsolute, "/", FALSE)
         IN  IF Len(body) = 0
             THEN IF isAbsolute THEN <<"/">>
                  ELSE IF trailingSeparator THEN <<".", "/">> ELSE <<".">>
             ELSE LET b2 == IF trailingSeparator THEN Append(body, "/") ELSE body
                  IN  IF isAbsolute THEN <<"/">> \o b2 ELSE b2

isWindowsDeviceRoot(t) == t \in {"C", "c", "D", "d", "E", "e"}

\* path.win32.normalize, for paths that are not UNC paths (no path the model
\* feeds it starts with two separators).
win32Normalize(p) ==
    IF Len(p) = 0 THEN <<".">>
    ELSE IF Len(p) = 1 THEN (IF isPosixPathSeparator(p[1]) THEN <<"\\">> ELSE p)
    ELSE LET hasDevice == ~isPathSeparator(p[1]) /\ isWindowsDeviceRoot(p[1]) /\ p[2] = ":"
             device == IF hasDevice THEN SubSeq(p, 1, 2) ELSE <<>>
             isAbsolute == IF isPathSeparator(p[1]) THEN TRUE
                           ELSE hasDevice /\ Len(p) > 2 /\ isPathSeparator(p[3])
             rootEnd == IF isPathSeparator(p[1]) THEN 1
                        ELSE IF hasDevice THEN (IF isAbsolute THEN 3 ELSE 2)
                        ELSE 0
             tail0 == IF rootEnd < Len(p)
                      THEN normalizeString(SubSeq(p, rootEnd + 1, Len(p)), ~isAbsolute, "\\", TRUE)
                      ELSE <<>>
             tail1 == IF Len(tail0) = 0 /\ ~isAbsolute THEN <<".">> ELSE tail0
             tail == IF Len(tail1) > 0 /\ isPathSeparator(Last(p))
                     THEN Append(tail1, "\\") ELSE tail1
         IN  device \o (IF isAbsolute THEN <<"\\">> ELSE <<>>) \o tail

\* path.normalize of the running platform.
normalize(p, win) == IF win THEN win32Normalize(p) ELSE posixNormalize(p)

\* path.resolve(p) for an absolute p (every menu value of part_000 is one:
\* a mount point that starts with "/", or a drive caption followed by "\\"):
\* normalized, without a trailing separator unless p is a root.
resolve(p, win) ==
    IF win
    THEN LET hasDevice == Len(p) >= 2 /\ isWindowsDeviceRoot(p[1]) /\ p[2] = ":"
             device == IF hasDevice THEN SubSeq(p, 1, 2) ELSE <<>>
             rootEnd == IF hasDevice THEN 3 ELSE 1
             tail == IF rootEnd < Len(p)
                     THEN normalizeString(SubSeq(p, rootEnd + 1, Len(p)), FALSE, "\\", TRUE)
                     ELSE <<>>
         IN  device \o <<"\\">> \o tail
    ELSE <<"/">> \o normalizeString(p, FALSE, "/", FALSE)

\* ------------------------------------------------------------ the machine

\* null, and a handle to a value v (a child process, a timer).
null == <<>>

Handle(v) == <<v>>

\* The drives of the machine the tool runs on, as the engine's inventory
\* describes them (design document, DriveRecord): device, path (mount point
\* or drive root) and the system-volume flag.
Inventory(win) ==
    IF win
    THEN << [device |-> <<"C", ":">>, path |-> <<"C", ":", "\\">>, is_system |-> TRUE],
            [device |-> <<"E", ":">>, path |-> <<"E", ":", "\\">>, is_system |-> FALSE] >>
    ELSE << [device |-> <<"/", "dev", "/", "sda1">>, path |-> <<"/">>, is_system |-> TRUE],
            [device |-> <<"/", "dev", "/", "sdb1">>, path |-> <<"/", "mnt", "/", "usb">>,
             is_system |-> FALSE] >>

\* A target names a system volume when it is the device or the path of a
\* drive whose record has is_system = true.
IsSystemVolume(p, win) ==
    \E i \in 1..Len(Inventory(win)) :
        /\ Inventory(win)[i].is_system
        /\ p \in {Inventory(win)[i].device, Inventory(win)[i].path}

RECURSIVE SubSeqs(_)
\* Every subsequence of s (elements kept in order).
SubSeqs(s) ==
    IF Len(s) = 0 THEN {<<>>}
    ELSE LET rest == SubSeqs(Tail(s))
         IN  rest \cup {<<s[1]>> \o r : r \in rest}

\* The lines main.py may print for --list-drives: text that is no JSON, a
\* JSON record of another type, or a "drives" record with its items.
ListingLines(win) ==
    {[json |-> FALSE, type |-> "", items |-> <<>>],
     [json |-> TRUE, type |-> "status", items |-> <<>>]}
    \cup {[json |-> TRUE, type |-> "drives", items |-> its] : its \in SubSeqs(Inventory(win))}

\* What exec hands the callback of the listing command: an error, or stdout
\* as its lines (at most two).
ListingResults(win) ==
    {[err |-> TRUE, lines |-> <<>>]}
    \cup {[err |-> FALSE, lines |-> ls] :
            ls \in {<<>>} \cup {<<a>> : a \in ListingLines(win)}
                   \cup {<<a, b>> : a \in ListingLines(win), b \in ListingLines(win)}}

\* One whitespace-separated field of a line of lsblk, wmic or df output:
\* its text, and whether parseInt reads a number from it.
Field(text, isNum) == [text |-> text, isNum |-> isNum]

\* parts[i] (1-based here); a missing part is undefined, which parseInt
\* reads as NaN and which is falsy.
Part(parts, i) == IF i <= Len(parts) THEN parts[i] ELSE Field(<<>>, FALSE)

\* lsblk -o NAME,FSTYPE,SIZE,MOUNTPOINT -b -p -n: one line per device; a
\* device without a filesystem has an empty FSTYPE column.
LsblkLines ==
    << << Field(<<"/", "dev", "/", "sda1">>, FALSE), Field(<<"ext4">>, FALSE),
          Field(<<"500">>, TRUE), Field(<<"/">>, FALSE) >>,
       << Field(<<"/", "dev", "/", "sdb1">>, FALSE), Field(<<"vfat">>, FALSE),
          Field(<<"16">>, TRUE), Field(<<"/", "mnt", "/", "usb">>, FALSE) >>,
       << Field(<<"/", "dev", "/", "sdc">>, FALSE), Field(<<"16">>, TRUE) >> >>

\* wmic logicaldisk get caption,volumename,size (after the header line).
WmicLines ==
    << << Field(<<"C", ":">>, FALSE), Field(<<"500">>, TRUE), Field(<<"System">>, FALSE) >>,
       << Field(<<"E", ":">>, FALSE), Field(<<"16">>, TRUE) >>,
       << Field(<<"D", ":">>, FALSE) >> >>

WmicHeader == << Field(<<"Caption">>, FALSE), Field(<<"Size">>, FALSE),
                 Field(<<"VolumeName">>, FALSE) >>

\* What exec hands the callback of the fallback command.
FallbackResults(win) ==
    {[err |-> TRUE, lines |-> <<>>]}
    \cup IF win
         THEN {[err |-> FALSE, lines |-> <<WmicHeader>> \o ls] : ls \in SubSeqs(WmicLines)}
         ELSE {[err |-> FALSE, lines |-> ls] : ls \in SubSeqs(LsblkLines)}

\* df -h (after the header line): the mount point is the last column.
DfLines ==
    << << Field(<<"/", "dev", "/", "sda1">>, FALSE), Field(<<"500G">>, TRUE),
          Field(<<"100G">>, TRUE), Field(<<"400G">>, TRUE), Field(<<"20%">>, TRUE),
          Field(<<"/">>, FALSE) >>,
       << Field(<<"/", "dev", "/", "sdb1">>, FALSE), Field(<<"16G">>, TRUE),
          Field(<<"1G">>, TRUE), Field(<<"15G">>, TRUE), Field(<<"6%">>, TRUE),
          Field(<<"/", "mnt", "/", "usb">>, FALSE) >>,
       << Field(<<"none">>, FALSE), Field(<<"0">>, TRUE), Field(<<"-">>, FALSE) >> >>

DfHeader == << Field(<<"Filesystem">>, FALSE), Field(<<"Size">>, FALSE),
               Field(<<"Mounted">>, FALSE) >>

\* wmic logicaldisk get caption,volumename,size,freespace (after the header).
Wmic4Lines ==
    << << Field(<<"C", ":">>, FALSE), Field(<<"100">>, TRUE), Field(<<"500">>, TRUE),
          Field(<<"System">>, FALSE) >>,
       << Field(<<"E", ":">>, FALSE), Field(<<"15">>, TRUE), Field(<<"16">>, TRUE) >>,
       << Field(<<"D", ":">>, FALSE) >> >>

\* What exec hands the callback of the platform command of part_000.
PlatformResults(win) ==
    {[err |-> TRUE, lines |-> <<>>]}
    \cup IF win
         THEN {[err |-> FALSE, lines |-> <<WmicHeader>> \o ls] : ls \in SubSeqs(Wmic4Lines)}
         ELSE {[err |-> FALSE, lines |-> <<DfHeader>> \o ls] : ls \in SubSeqs(DfLines)}

\* ------------------------------------------- index.js: pure parts of getDrives

RECURSIVE LastDrivesLine(_)
\* lines.reverse().find(l => JSON.parse(l).type === 'drives'): the last line
\* that parses as JSON of type 'drives'; null when there is none.
LastDrivesLine(lines) ==
    IF Len(lines) = 0 THEN null
    ELSE IF Last(lines).json /\ Last(lines).type = "drives" THEN Handle(Last(lines))
    ELSE LastDrivesLine(Front(lines))

\* items.map(d => choice): the value is the root path on Windows and the
\* block device elsewhere; a system volume's choice is disabled.
EngineChoices(items, win) ==
    [i \in 1..Len(items) |->
        [value |-> IF win THEN items[i].path ELSE items[i].device,
         disabled |-> items[i].is_system]]

\* The choices the listing yields; <<>> stands for every path that throws
\* into the catch block (exec error, no drives record, empty item list).
PrimaryChoices(res, win) ==
    IF res.err THEN <<>>
    ELSE LET l == LastDrivesLine(res.lines)
         IN  IF l = null THEN <<>> ELSE EngineChoices(l[1].items, win)

\* FallbackDrives that gives the whole scan up when there is a line it
\* cannot parse.
FallbackDrives_Abort(lines, win) ==
    LET size(parts) == IF win THEN Part(parts, 2) ELSE Part(parts, 3)
        ok(parts) == Len(Part(parts, 1).text) > 0 /\ size(parts).isNum
    IN  IF \E i \in 1..Len(lines) : ~ok(lines[i]) THEN <<>>
        ELSE [i \in 1..Len(lines) |->
                [value |-> Part(lines[i], 1).text \o (IF win THEN <<"\\">> ELSE <<>>),
                 disabled |-> FALSE]]

RECURSIVE FallbackDrives(_, _)
\* The fallback parser: wmic lines (caption, size, volume name) on Windows,
\* lsblk lines (name, fstype, size, mount point) elsewhere.
FallbackDrives(lines, win) ==
    IF Len(lines) = 0 THEN <<>>
    ELSE LET parts == lines[1]
             rest == FallbackDrives(Tail(lines), win)
         IN  IF win
             THEN IF Len(parts) < 2 THEN rest
                  ELSE IF Len(Part(parts, 1).text) > 0 /\ Part(parts, 2).isNum
                  THEN <<[value |-> Part(parts, 1).text \o <<"\\">>, disabled |-> FALSE]>> \o rest
                  ELSE rest
             ELSE IF Len(Part(parts, 1).text) > 0 /\ Part(parts, 3).isNum
                  THEN <<[value |-> Part(parts, 1).text, disabled |-> FALSE]>> \o rest
                  ELSE rest

\* The drives the fallback callback resolves with.
FallbackChoices(res, win) ==
    IF res.err THEN <<>>
    ELSE FallbackDrives(IF win THEN Tail(res.lines) ELSE res.lines, win)

\* ------------------------------------------- part_000: pure part of getDrives

RECURSIVE PlatformDrives(_, _)
\* wmic lines (caption, free space, size, volume name) on Windows; df lines
\* elsewhere, whose last column is the mount point.
PlatformDrives(lines, win) ==
    IF Len(lines) = 0 THEN <<>>
    ELSE LET parts == lines[1]
             rest == PlatformDrives(Tail(lines), win)
         IN  IF win
             THEN IF Len(parts) < 2 THEN rest
                  ELSE IF Len(Part(parts, 1).text) > 0 /\ Part(parts, 3).isNum
                  THEN <<[value |-> Part(parts, 1).text \o <<"\\">>, disabled |-> FALSE]>> \o rest
                  ELSE rest
             ELSE LET mountPoint == Last(parts).text
                  IN  IF Len(mountPoint) > 0 /\ mountPoint[1] = "/"
                      THEN <<[value |-> mountPoint, disabled |-> FALSE]>> \o rest
                      ELSE rest

PlatformChoices(res, win) ==
    IF res.err THEN <<>> ELSE PlatformDrives(Tail(res.lines), win)

\* ------------------------------------------------------ arguments, prompts

\* String(n) for the integers the passes prompt can yield.
String(n) ==
    LET dec == <<"0", "1", "2", "3", "4", "5", "6", "7", "8", "9", "10", "11", "12">>
    IN  IF n < 0 THEN <<"-", dec[1 - n]>> ELSE <<dec[n + 1]>>

RECURSIVE IndexOf(_, _)
\* Array.prototype.indexOf, 1-based; 0 when absent.
IndexOf(args, x) ==
    IF Len(args) = 0 THEN 0
    ELSE IF Last(args) = x /\ IndexOf(Front(args), x) = 0 THEN Len(args)
    ELSE IndexOf(Front(args), x)

HasOpt(args, opts) == \E o \in opts : IndexOf(args, o) > 0

\* The argument that follows the first of the options opts; null when none
\* of them is given.
OptValue(args, opts) ==
    LET found == {o \in opts : IndexOf(args, o) > 0 /\ IndexOf(args, o) < Len(args)}
    IN  IF found = {} THEN null
        ELSE Handle(args[IndexOf(args, CHOOSE o \in found : TRUE) + 1])

\* ListingArgs without --dry-run.
ListingArgs_NoDryRun(win) ==
    << <<"-p">>, (IF win THEN <<"C", ":", "\\">> ELSE <<"/", "dev", "/", "null">>),
       <<"-m">>, <<"secure">>,
       <<"-f">>, (IF win THEN <<"NTFS">> ELSE <<"ext4">>),
       <<"--list-drives">> >>

\* The listing command line of getDrives, after the script's name.
ListingArgs(win) ==
    << <<"-p">>, (IF win THEN <<"C", ":", "\\">> ELSE <<"/", "dev", "/", "null">>),
       <<"-m">>, <<"secure">>,
       <<"-f">>, (IF win THEN <<"NTFS">> ELSE <<"ext4">>),
       <<"--list-drives">>, <<"--dry-run">> >>

\* The wiping methods of the menu of index.js.
WipeModes == {"secure", "paranoid", "legacy-fast"}

\* The wiping methods of the menu of part_000.
WipeModes0 == {"quick", "secure", "paranoid"}

fsChoices(win) == IF win THEN {"NTFS", "exFAT"} ELSE {"ext4", "exfat", "vfat"}

DefaultPasses == 3

\* What the operator may enter at the passes prompt: an integer, or a number
\* that is no integer (n + 1/2).
PassInputs ==
    {[isInteger |-> TRUE, n |-> k] : k \in {-1, 0, 1, DefaultPasses, 10, 11}}
    \cup {[isInteger |-> FALSE, n |-> 2]}

\* validate without the upper bound.
validate_NoUpperBound(v) == v.isInteger /\ v.n >= 1

\* validate: v => Number.isInteger(v) && v >= 1 && v <= 10
validate(v) == v.isInteger /\ v.n >= 1 /\ v.n <= 10

\* What the operator may type at the confirmation prompt.
Confirmations(win) ==
    IF win
    THEN { <<"E", ":", "\\">>, <<"e", ":", "/">>, <<"E", ":">>,
           <<"E", ":", "\\", " ">>, <<"C", ":", "\\">>, <<"C", ":">>, <<>> }
    ELSE { <<"/", "dev", "/", "sdb1">>, <<"/", "DEV", "/", "SDB1">>,
           <<"/", "dev", "/", ".", "/", "/", "sdb1", " ">>,
           <<"/", "dev", "/", "sdb1", "/">>, <<"/", "dev", "/", "sda1">>,
           <<"/", "mnt", "/", "usb">>, <<"/", "MNT", "/", "usb", "/">>,
           <<"/", "mnt", "/", "..", "/">>, <<>> }

\* ConfirmationMatches comparing the confirmation with itself.
ConfirmationMatches_Typo(conf, target, win) ==
    toLowerCase(trim(normalize(conf, win))) = toLowerCase(trim(normalize(conf, win)))

\* index.js: the typed confirmation equals the target, both normalized,
\* trimmed and lower-cased.
ConfirmationMatches(conf, target, win) ==
    toLowerCase(trim(normalize(conf, win))) = toLowerCase(trim(normalize(target, win)))

\* part_000: the same comparison, with one trailing backslash removed in
\* place of the trimming.
ConfirmationMatches0(conf, resolved, win) ==
    toLowerCase(StripTrailingBackslash(normalize(conf, win)))
        = toLowerCase(StripTrailingBackslash(normalize(resolved, win)))

\* CloseReport with a falsy test in place of code === 0: null counts as 0.
CloseReport_NullIsSuccess(code) ==
    IF code = Handle(0) \/ code = null THEN <<"completed">>
    ELSE IF code = Handle(130) THEN <<"cancelled">>
    ELSE <<"failed">>

\* The close handler's report, one entry per message it prints: by the exit
\* code, which is null when a signal ended the process.
CloseReport(code) ==
    IF code = Handle(0) THEN <<"completed">>
    ELSE IF code = Handle(130) THEN <<"cancelled">>
    ELSE <<"failed">>

\* ------------------------------------------------------------------ state

VARIABLES
    program,          \* which front-end runs: "index.js" or "part_000"
    isWindows,        \* process.platform === 'win32'
    isRoot,           \* process.getuid() === 0
    pc,               \* where the front-end waits: a prompt, a callback, the engine
    sessions,         \* how often the operator has left the main menu so far
    drives,           \* the choices getDrives resolved with
    scan,             \* what exec handed the callback that settled getDrives
    targetPath,       \* the answer of the target prompt
    resolvedPath,     \* part_000: path.resolve(targetPath)
    wipeMode,         \* the answer of the method prompt
    filesystem,       \* the answer of the filesystem prompt
    passesArg,        \* [] or ['--passes', String(passes)]
    confirmation,     \* the answer of the confirmation prompt
    pythonProcess,    \* the module variable: null or a handle to a child
    spinnerInterval,  \* the module variable: null or a handle to a timer
    timers,           \* the interval timers that are active
    stdinListener,    \* the 'data' listener on process.stdin: "none", "ctrlc", "exit"
    running,          \* the child processes that have not been closed yet
    spawned,          \* how many child processes have been spawned so far
    reported,         \* what the last close handler printed about the outcome
    closed,           \* the child the last close handler was called for
    steps,            \* the prompts answered since the main menu was shown or the engine spawned
    uidChecked,       \* process.getuid() was called since the main menu was shown
    ctrlC,            \* how often the operator pressed Ctrl+C since the engine was spawned
    session,          \* the WipeSession of an engine run from the command line
    pipes,            \* what the engine wrote to stdout and stderr and no 'data' event delivered yet
    emitted,          \* the lines the engine wrote so far, with their channel
    received,         \* the lines the 'data' handlers took from their chunks so far
    logMessages,      \* index.js: the session log of startWipeProcess
    currentPhase,     \* index.js: the phase shown next to the spinner
    console           \* what the output handlers and the final log printed

vars == <<program, isWindows, isRoot, pc, sessions, drives, scan, targetPath, resolvedPath,
          wipeMode, filesystem, passesArg, confirmation, pythonProcess,
          spinnerInterval, timers, stdinListener, running, spawned, reported,
          closed, steps, uidChecked, ctrlC, session,
         pipes, emitted, received, logMessages, currentPhase, console>>

env == <<program, isWindows, isRoot>>

display == <<pipes, emitted, received, logMessages, currentPhase, console>>

answers == <<targetPath, resolvedPath, wipeMode, filesystem, passesArg, confirmation>>

handles == <<pythonProcess, spinnerInterval, timers, stdinListener>>

children == <<running, spawned>>

Programs == {"index.js", "part_000"}

Channels == {"stdout", "stderr"}

\* Nothing written by an engine, nothing shown of it.
NoOutput ==
    /\ pipes = [ch \in Channels |-> <<>>]
    /\ emitted = <<>> /\ received = <<>>
    /\ logMessages = <<>> /\ currentPhase = "Initializing..."
    /\ console = <<>>

\* A child process as spawn or exec creates it. cmd is "main.py" for the
\* engine and the tool's name for a platform command.
Child(pid, cmd, by, args) ==
    [pid |-> pid, cmd |-> cmd, by |-> by, args |-> args, state |-> "Running",
     cancellationRequested |-> FALSE, signal |-> null, exitCode |-> null]

Engines == {i \in 1..Len(running) : running[i].cmd = "main.py"}

\* The wipe sessions among the children r: the engine processes
\* startWipeProcess spawned.
WipesOf(r) == {i \in 1..Len(r) : r[i].cmd = "main.py" /\ r[i].by = "startWipeProcess"}

Wipes == WipesOf(running)

\* running without its i-th element.
Without(i) == SubSeq(running, 1, i - 1) \o SubSeq(running, i + 1, Len(running))

Init ==
    /\ program \in Programs
    /\ isWindows \in BOOLEAN
    /\ isRoot \in (IF isWindows THEN {FALSE} ELSE BOOLEAN)
    /\ pc = "main"
    /\ sessions = 0
    /\ drives = <<>> /\ scan = null
    /\ targetPath = <<>> /\ resolvedPath = <<>> /\ wipeMode = "" /\ filesystem = ""
    /\ passesArg = <<>> /\ confirmation = <<>>
    /\ pythonProcess = null /\ spinnerInterval = null /\ timers = {}
    /\ stdinListener = "none"
    /\ running = <<>> /\ spawned = 0
    /\ reported = <<>> /\ closed = null
    /\ steps = {} /\ uidChecked = FALSE /\ ctrlC = 0
    /\ session = null
    /\ NoOutput

\* What exec handed the callback of command cmd: an error, or the lines of
\* stdout.
Scanned(cmd, res) == [cmd |-> cmd, err |-> res.err, lines |-> res.lines]

\* main(): displayHeader clears the screen and the menu is shown; the
\* locals of the flow that ended are gone.
main ==
    /\ pc' = "main"
    /\ reported' = <<>> /\ closed' = null
    /\ targetPath' = <<>> /\ resolvedPath' = <<>> /\ wipeMode' = "" /\ filesystem' = ""
    /\ passesArg' = <<>> /\ confirmation' = <<>>
    /\ drives' = <<>> /\ scan' = null
    /\ steps' = {} /\ uidChecked' = FALSE /\ ctrlC' = 0

\* setTimeout(main, ...) fires.
timer ==
    /\ pc = "timer"
    /\ main
    /\ UNCHANGED <<env, session, display, sessions, handles, children>>

\* main, choice 'exit': process.exit(0).
main_exit ==
    /\ pc = "main"
    /\ pc' = "exited"
    /\ UNCHANGED <<env, session, display, sessions, drives, scan, answers, handles, children, reported, closed,
                   steps, uidChecked, ctrlC>>

\* The children r after the terminal has sent SIGINT to the foreground
\* process group: spawn and exec are called without `detached`, so every
\* child is in the group of the front-end. The engine takes the signal as a
\* request to cancel.
interrupt(r) ==
    [i \in 1..Len(r) |->
        IF r[i].state = "Running"
        THEN [r[i] EXCEPT !.signal = Handle("SIGINT"), !.cancellationRequested = TRUE]
        ELSE r[i]]

\* The operator presses Ctrl+C while the engine runs and the terminal turns
\* it into an interrupt. Neither front-end listens for 'SIGINT': the
\* front-end ends, whatever the engine does from here is reported by nobody.
terminal_SIGINT ==
    /\ pc = "wiping" /\ ctrlC < MaxCtrlC
    /\ \E i \in Wipes : running[i].state = "Running"
    /\ ctrlC' = ctrlC + 1
    /\ running' = interrupt(running)
    /\ pc' = "exited"
    /\ UNCHANGED <<env, session, display, sessions, drives, scan, answers, handles, spawned, reported, closed,
                   steps, uidChecked>>

\* ---------------------------------------------------------------- index.js

\* main, choice 'wipe': startWipeSequence up to the exec of the listing
\* command in getDrives.
main_wipe ==
    /\ program = "index.js" /\ pc = "main" /\ sessions < MaxSessions
    /\ sessions' = sessions + 1
    /\ running' = Append(running, Child(spawned + 1, "main.py", "getDrives", ListingArgs(isWindows)))
    /\ spawned' = spawned + 1
    /\ pc' = "getDrives"
    /\ UNCHANGED <<env, session, display, drives, scan, answers, handles, reported, closed, steps, uidChecked, ctrlC>>

\* getDrives: the callback of the listing command. With choices it resolves
\* and startWipeSequence shows the target prompt; otherwise it runs the
\* fallback command.
getDrives_listed ==
    /\ program = "index.js" /\ pc = "getDrives"
    /\ \E i \in Engines, res \in ListingResults(isWindows) :
        /\ running[i].by = "getDrives"
        /\ LET choices == PrimaryChoices(res, isWindows)
           IN  IF Len(choices) > 0
               THEN /\ drives' = choices
                    /\ scan' = Handle(Scanned("main.py", res))
                    /\ running' = Without(i)
                    /\ spawned' = spawned
                    /\ pc' = "selectTarget"
               ELSE /\ UNCHANGED <<drives, scan>>
                    /\ running' = Append(Without(i),
                            Child(spawned + 1, IF isWindows THEN "wmic" ELSE "lsblk",
                                  "getDrives", <<>>))
                    /\ spawned' = spawned + 1
                    /\ pc' = "fallback"
    /\ UNCHANGED <<env, session, display, sessions, answers, handles, reported, closed, steps, uidChecked, ctrlC>>

\* getDrives: the callback of the fallback command; startWipeSequence then
\* shows the target prompt, or without drives returns to main after 3 s.
getDrives_fallback ==
    /\ program = "index.js" /\ pc = "fallback"
    /\ \E i \in 1..Len(running), res \in FallbackResults(isWindows) :
        /\ running[i].cmd \in {"wmic", "lsblk"}
        /\ drives' = FallbackChoices(res, isWindows)
        /\ scan' = Handle(Scanned(running[i].cmd, res))
        /\ running' = Without(i)
        /\ pc' = IF Len(drives') = 0 THEN "timer" ELSE "selectTarget"
    /\ UNCHANGED <<env, session, display, sessions, answers, handles, spawned, reported, closed, steps,
                   uidChecked, ctrlC>>

\* The value of the Cancel choice of the list prompts, as a path.
Cancel == <<"cancel">>

\* The values the list prompt lets the operator pick: inquirer skips a
\* disabled choice.
Selectable == {drives[i].value : i \in {j \in 1..Len(drives) : ~drives[j].disabled}}

\* startWipeSequence: the answer of the target prompt (drives is not read
\* after it).
selectTarget ==
    /\ program = "index.js" /\ pc = "selectTarget"
    /\ \E v \in Selectable \cup {Cancel} :
          IF v = Cancel THEN main
          ELSE /\ targetPath' = v
               /\ drives' = <<>> /\ scan' = null
               /\ steps' = steps \cup {"target"}
               /\ pc' = "selectMode"
               /\ UNCHANGED <<resolvedPath, wipeMode, filesystem, passesArg, confirmation,
                              reported, closed, uidChecked, ctrlC>>
    /\ UNCHANGED <<env, session, display, sessions, handles, children>>

selectMode_CancelIsMode ==
    /\ program = "index.js" /\ pc = "selectMode"
    /\ \E m \in WipeModes \cup {"cancel"} :
          /\ wipeMode' = m
          /\ steps' = steps \cup {"mode"}
          /\ pc' = "selectFs"
          /\ UNCHANGED <<drives, scan, targetPath, resolvedPath, filesystem, passesArg,
                         confirmation, reported, closed, uidChecked, ctrlC>>
    /\ UNCHANGED <<env, session, display, sessions, handles, children>>

\* startWipeSequence: the answer of the method prompt.
selectMode ==
    /\ program = "index.js" /\ pc = "selectMode"
    /\ \E m \in WipeModes \cup {"cancel"} :
          IF m = "cancel" THEN main
          ELSE /\ wipeMode' = m
               /\ steps' = steps \cup {"mode"}
               /\ pc' = "selectFs"
               /\ UNCHANGED <<drives, scan, targetPath, resolvedPath, filesystem, passesArg,
                              confirmation, reported, closed, uidChecked, ctrlC>>
    /\ UNCHANGED <<env, session, display, sessions, handles, children>>

\* startWipeSequence: the answer of the filesystem prompt; paranoid mode
\* asks for the passes next.
selectFs ==
    /\ program = "index.js" /\ pc = "selectFs"
    /\ \E targetFs \in fsChoices(isWindows) \cup {"cancel"} :
          IF targetFs = "cancel" THEN main
          ELSE /\ filesystem' = targetFs
               /\ steps' = steps \cup {"filesystem"}
               /\ pc' = IF wipeMode = "paranoid" THEN "passes" ELSE "confirm"
               /\ UNCHANGED <<drives, scan, targetPath, resolvedPath, wipeMode, passesArg,
                              confirmation, reported, closed, uidChecked, ctrlC>>
    /\ UNCHANGED <<env, session, display, sessions, handles, children>>

\* What the passes prompt does with an entry (an empty entry stands for the
\* default): an entry validate rejects is asked for again.
passesAnswered(v) ==
    IF validate(v)
    THEN /\ passesArg' = <<<<"--passes">>, String(v.n)>>
         /\ pc' = "confirm"
    ELSE UNCHANGED <<passesArg, pc>>

\* startWipeSequence: the operator enters a number of passes (or nothing).
enterPasses ==
    /\ program = "index.js" /\ pc = "passes"
    /\ \E v \in PassInputs : passesAnswered(v)
    /\ UNCHANGED <<env, session, display, sessions, drives, scan, targetPath, resolvedPath, wipeMode, filesystem,
                   confirmation, handles, children, reported, closed, steps, uidChecked,
                   ctrlC>>

\* startWipeProcess that shows the main menu again while the engine runs.
startWipeProcess_BackToMenu(args) ==
    /\ running' = Append(running, Child(spawned + 1, "main.py", "startWipeProcess", args))
    /\ spawned' = spawned + 1
    /\ pythonProcess' = Handle(spawned + 1)
    /\ spinnerInterval' = Handle(spawned + 1)
    /\ timers' = timers \cup {spawned + 1}
    /\ steps' = {}
    /\ pc' = "main"
    /\ UNCHANGED stdinListener

\* startWipeProcess(args): spawns the engine and starts the spinner timer.
startWipeProcess(args) ==
    /\ running' = Append(running, Child(spawned + 1, "main.py", "startWipeProcess", args))
    /\ spawned' = spawned + 1
    /\ pythonProcess' = Handle(spawned + 1)
    /\ spinnerInterval' = Handle(spawned + 1)
    /\ timers' = timers \cup {spawned + 1}
    /\ steps' = {}
    /\ pc' = "wiping"
    /\ UNCHANGED stdinListener

\* scriptArgs with the target lower-cased.
scriptArgs_Folded ==
    << <<"--path">>, toLowerCase(targetPath), <<"--mode">>, <<wipeMode>>,
       <<"--filesystem">>, <<filesystem>> >> \o passesArg

\* ['--path', targetPath, '--mode', wipeMode, '--filesystem', filesystem, ...passesArg]
scriptArgs ==
    << <<"--path">>, targetPath, <<"--mode">>, <<wipeMode>>,
       <<"--filesystem">>, <<filesystem>> >> \o passesArg

\* The root check before the wipe: off Windows, getuid() must be 0.
rootRequired == ~isWindows /\ ~isRoot

\* startWipeSequence: the answer of the confirmation prompt. A match (off
\* Windows: of a root user) starts the engine; anything else returns to
\* main after a delay.
confirm ==
    /\ program = "index.js" /\ pc = "confirm"
    /\ \E c \in Confirmations(isWindows) :
        /\ confirmation' = c
        /\ IF ConfirmationMatches(c, targetPath, isWindows)
           THEN /\ uidChecked' = ~isWindows
                /\ IF rootRequired
                   THEN /\ pc' = "timer"
                        /\ UNCHANGED <<handles, children, steps>>
                   ELSE startWipeProcess(scriptArgs)
           ELSE /\ pc' = "timer"
                /\ UNCHANGED <<handles, children, steps, uidChecked>>
    /\ UNCHANGED <<env, session, display, sessions, drives, scan, targetPath, resolvedPath, wipeMode, filesystem,
                   passesArg, reported, closed, ctrlC>>

\* What the model keeps of a closed child: how the engine ended.
Ended(child) == [by |-> child.by, state |-> child.state, exitCode |-> child.exitCode]

\* onClose that starts the engine again, with the same arguments, when it
\* ended with a failure.
onClose_Retry(i) ==
    /\ closed' = Handle(Ended(running[i]))
    /\ timers' = IF spinnerInterval = null THEN timers ELSE timers \ {spinnerInterval[1]}
    /\ reported' = CloseReport(running[i].exitCode)
    /\ IF running[i].exitCode \in {Handle(0), Handle(130)}
       THEN /\ running' = Without(i)
            /\ pc' = "pressEnter"
            /\ UNCHANGED <<pythonProcess, spawned>>
       ELSE /\ running' = Append(Without(i),
                    Child(spawned + 1, "main.py", "startWipeProcess", running[i].args))
            /\ spawned' = spawned + 1
            /\ pythonProcess' = Handle(spawned + 1)
            /\ pc' = "wiping"
    /\ UNCHANGED <<spinnerInterval, stdinListener>>

\* onClose without clearInterval(spinnerInterval).
onClose_KeepsTimer(i) ==
    /\ closed' = Handle(Ended(running[i]))
    /\ running' = Without(i)
    /\ timers' = timers
    /\ reported' = CloseReport(running[i].exitCode)
    /\ pc' = "pressEnter"
    /\ UNCHANGED <<pythonProcess, spinnerInterval, stdinListener, spawned>>

\* The close handler of index.js, called for the i-th child: the timer is
\* cleared, the outcome printed, and Enter is waited for.
onClose(i) ==
    /\ closed' = Handle(Ended(running[i]))
    /\ running' = Without(i)
    /\ timers' = IF spinnerInterval = null THEN timers ELSE timers \ {spinnerInterval[1]}
    /\ reported' = CloseReport(running[i].exitCode)
    /\ pc' = "pressEnter"
    /\ UNCHANGED <<pythonProcess, spinnerInterval, stdinListener, spawned>>

\* pythonProcess.on('close'): the engine has exited and its streams closed.
close ==
    /\ program = "index.js" /\ pc = "wiping"
    /\ \E i \in Wipes :
        /\ running[i].state # "Running"
        /\ onClose(i)
    /\ UNCHANGED <<env, session, display, sessions, drives, scan, answers, steps, uidChecked, ctrlC>>

\* The operator presses Enter after the final log: .then(main).
pressEnter ==
    /\ program = "index.js" /\ pc = "pressEnter"
    /\ main
    /\ UNCHANGED <<env, session, display, sessions, handles, children>>

\* The operator presses Ctrl+C while the engine runs and the terminal hands
\* it to the front-end as the key '\u0003' on stdin. index.js installs no
\* listener for it: nothing is sent to the engine.
ctrlC_pressed ==
    /\ program = "index.js" /\ pc = "wiping" /\ ctrlC < MaxCtrlC
    /\ \E i \in Wipes : running[i].state = "Running"
    /\ ctrlC' = ctrlC + 1
    /\ UNCHANGED <<env, session, display, pc, sessions, drives, scan, answers, handles, children, reported, closed,
                   steps, uidChecked>>

\* ---------------------------------------------------------------- part_000

\* getDrives: the exec of the platform command (wmic or df -h).
getDrives0 ==
    /\ running' = Append(running, Child(spawned + 1, IF isWindows THEN "wmic" ELSE "df",
                                        "getDrives", <<>>))
    /\ spawned' = spawned + 1

\* main, choice 'scan': scanDrivesForDisplay up to the exec in getDrives.
main0_scan ==
    /\ program = "part_000" /\ pc = "main" /\ sessions < MaxSessions
    /\ sessions' = sessions + 1
    /\ getDrives0
    /\ pc' = "scan"
    /\ UNCHANGED <<env, session, display, drives, scan, answers, handles, reported, closed, steps, uidChecked, ctrlC>>

\* scanDrivesForDisplay: the drives are printed and Enter is waited for.
scan_listed ==
    /\ program = "part_000" /\ pc = "scan"
    /\ \E i \in 1..Len(running), res \in PlatformResults(isWindows) :
        /\ running[i].by = "getDrives"
        /\ drives' = PlatformChoices(res, isWindows)
        /\ scan' = Handle(Scanned(running[i].cmd, res))
        /\ running' = Without(i)
    /\ pc' = "scanShown"
    /\ UNCHANGED <<env, session, display, sessions, answers, handles, spawned, reported, closed, steps,
                   uidChecked, ctrlC>>

\* The operator presses Enter after the scan: .then(main).
scan_enter ==
    /\ program = "part_000" /\ pc = "scanShown"
    /\ main
    /\ UNCHANGED <<env, session, display, sessions, handles, children>>

\* main, choice 'wipe': startWipeSequence up to the exec in getDrives.
main0_wipe ==
    /\ program = "part_000" /\ pc = "main" /\ sessions < MaxSessions
    /\ sessions' = sessions + 1
    /\ getDrives0
    /\ pc' = "getDrives"
    /\ UNCHANGED <<env, session, display, drives, scan, answers, handles, reported, closed, steps, uidChecked, ctrlC>>

\* getDrives: the callback of the platform command; startWipeSequence then
\* shows the target prompt, or without drives returns to main after 2 s.
getDrives0_listed ==
    /\ program = "part_000" /\ pc = "getDrives"
    /\ \E i \in 1..Len(running), res \in PlatformResults(isWindows) :
        /\ running[i].by = "getDrives"
        /\ drives' = PlatformChoices(res, isWindows)
        /\ scan' = Handle(Scanned(running[i].cmd, res))
        /\ running' = Without(i)
        /\ pc' = IF Len(drives') = 0 THEN "timer" ELSE "selectTarget"
    /\ UNCHANGED <<env, session, display, sessions, answers, handles, spawned, reported, closed, steps,
                   uidChecked, ctrlC>>

\* startWipeSequence: the answer of the target prompt, resolved (drives is
\* not read after it); Cancel returns to main after 1.5 s.
selectTarget0 ==
    /\ program = "part_000" /\ pc = "selectTarget"
    /\ \E v \in Selectable \cup {Cancel} :
          IF v = Cancel
          THEN /\ pc' = "timer"
               /\ drives' = <<>> /\ scan' = null
               /\ UNCHANGED <<targetPath, resolvedPath, steps>>
          ELSE /\ targetPath' = v
               /\ resolvedPath' = resolve(v, isWindows)
               /\ drives' = <<>> /\ scan' = null
               /\ steps' = steps \cup {"target"}
               /\ pc' = "selectMode"
    /\ UNCHANGED <<env, session, display, sessions, wipeMode, filesystem, passesArg,
                   confirmation, handles, children, reported, closed, uidChecked, ctrlC>>

\* startWipeSequence: the answer of the method prompt.
selectMode0 ==
    /\ program = "part_000" /\ pc = "selectMode"
    /\ \E m \in WipeModes0 \cup {"cancel"} :
          IF m = "cancel"
          THEN /\ pc' = "timer"
               /\ UNCHANGED <<wipeMode, steps>>
          ELSE /\ wipeMode' = m
               /\ steps' = steps \cup {"mode"}
               /\ pc' = "confirm"
    /\ UNCHANGED <<env, session, display, sessions, drives, scan, targetPath, resolvedPath, filesystem, passesArg,
                   confirmation, handles, children, reported, closed, uidChecked, ctrlC>>

\* startWipeProcess(targetPath, mode): spawns the engine and installs the
\* Ctrl+C listener on stdin.
startWipeProcess0(target, mode) ==
    /\ running' = Append(running,
            Child(spawned + 1, "main.py", "startWipeProcess",
                  << <<"--path">>, target, <<"--mode">>, <<mode>> >>))
    /\ spawned' = spawned + 1
    /\ pythonProcess' = Handle(spawned + 1)
    /\ stdinListener' = "ctrlc"
    /\ steps' = {}
    /\ pc' = "wiping"
    /\ UNCHANGED <<spinnerInterval, timers>>

\* startWipeSequence: the answer of the confirmation prompt.
confirm0 ==
    /\ program = "part_000" /\ pc = "confirm"
    /\ \E c \in Confirmations(isWindows) :
        /\ confirmation' = c
        /\ IF ConfirmationMatches0(c, resolvedPath, isWindows)
           THEN startWipeProcess0(resolvedPath, wipeMode)
           ELSE /\ pc' = "timer"
                /\ UNCHANGED <<handles, children, steps>>
    /\ UNCHANGED <<env, session, display, sessions, drives, scan, targetPath, resolvedPath, wipeMode, filesystem,
                   passesArg, reported, closed, uidChecked, ctrlC>>

\* pythonProcess.kill('SIGTERM') on the child the handle names, if it still
\* runs. Off Windows the signal is delivered to the child, which takes it as
\* a request to cancel. Windows has no signals: subprocess.kill ends the
\* child at once, and 'close' then carries the code null and the signal.
kill(handle) ==
    [i \in 1..Len(running) |->
        IF handle # null /\ running[i].pid = handle[1] /\ running[i].state = "Running"
        THEN IF isWindows
             THEN [running[i] EXCEPT !.signal = Handle("SIGTERM"), !.state = "Killed",
                                     !.exitCode = null]
             ELSE [running[i] EXCEPT !.signal = Handle("SIGTERM"),
                                     !.cancellationRequested = TRUE]
        ELSE running[i]]

\* process.stdin.on('data') with key '\u0003': the operator presses Ctrl+C
\* while the engine runs and the terminal hands it to the front-end as a key.
stdin_ctrlC0 ==
    /\ program = "part_000" /\ pc = "wiping" /\ ctrlC < MaxCtrlC
    /\ stdinListener = "ctrlc"
    /\ \E i \in Wipes : running[i].state = "Running"
    /\ ctrlC' = ctrlC + 1
    /\ running' = IF pythonProcess # null THEN kill(pythonProcess) ELSE running
    /\ UNCHANGED <<env, session, display, pc, sessions, drives, scan, answers, handles, spawned, reported, closed,
                   steps, uidChecked>>

\* The close handler of part_000, called for the i-th child: the outcome is
\* printed and the Ctrl+C listener replaced by one that exits on any key.
onClose0(i) ==
    /\ closed' = Handle(Ended(running[i]))
    /\ running' = Without(i)
    /\ reported' = CloseReport(running[i].exitCode)
    /\ stdinListener' = "exit"
    /\ pc' = "pressAnyKey"
    /\ UNCHANGED <<pythonProcess, spinnerInterval, timers, spawned>>

\* pythonProcess.on('close'): the engine has exited and its streams closed.
close0 ==
    /\ program = "part_000" /\ pc = "wiping"
    /\ \E i \in Wipes :
        /\ running[i].state # "Running"
        /\ onClose0(i)
    /\ UNCHANGED <<env, session, display, sessions, drives, scan, answers, steps, uidChecked, ctrlC>>

\* Any key after the close: process.exit(0).
stdin_exit0 ==
    /\ program = "part_000" /\ pc = "pressAnyKey" /\ stdinListener = "exit"
    /\ pc' = "exited"
    /\ UNCHANGED <<env, session, display, sessions, drives, scan, answers, handles, children, reported, closed,
                   steps, uidChecked, ctrlC>>

\* ------------------------------------- the engine (from the design document)

\* The four recognized modes (design document, 4.2 and 6).
EngineModes == {"quick", "secure", "paranoid", "legacy-fast"}

MinPasses == 1

MaxPasses == 10

\* The Safety Guard (4.2): the target is a drive of the inventory and no
\* system volume, the mode is recognized, passes (when given) is in range.
EngineValid(args, win) ==
    LET path == OptValue(args, {<<"--path">>, <<"-p">>})
        mode == OptValue(args, {<<"--mode">>, <<"-m">>})
        passes == OptValue(args, {<<"--passes">>})
    IN  /\ path # null
        /\ \E i \in 1..Len(Inventory(win)) :
              path[1] \in {Inventory(win)[i].device, Inventory(win)[i].path}
        /\ ~IsSystemVolume(path[1], win)
        /\ mode # null /\ \E m \in EngineModes : mode[1] = <<m>>
        /\ IF passes = null THEN TRUE
           ELSE \E n \in MinPasses..MaxPasses : passes[1] = String(n)

\* running with the i-th child exited in state st with exit code code.
Exited(i, st, code) ==
    [running EXCEPT ![i].state = st, ![i].exitCode = code]

engineFrame ==
    UNCHANGED <<env, session, display, pc, sessions, drives, scan, answers, handles, spawned, reported, closed,
                steps, uidChecked, ctrlC>>

\* Formatting -> Completed: exit code 0.
engineCompletes ==
    /\ \E i \in Wipes :
        /\ running[i].state = "Running"
        /\ EngineValid(running[i].args, isWindows)
        /\ running' = Exited(i, "Completed", Handle(0))
    /\ engineFrame

\* any state -> Cancelled (4.5): cancellation observed at a chunk boundary,
\* exit code 130.
engineCancelled ==
    /\ \E i \in Wipes :
        /\ running[i].state = "Running"
        /\ EngineValid(running[i].args, isWindows)
        /\ running[i].cancellationRequested
        /\ running' = Exited(i, "Cancelled", Handle(130))
    /\ engineFrame

\* The exit codes of a failure; null when a signal ended the process.
FailureCodes == {Handle(1), Handle(2), null}

\* Validating, Wiping or Formatting -> Failed: a rejected request, an I/O or
\* a format error; or the process is ended from outside.
engineFails ==
    /\ \E i \in Wipes, code \in FailureCodes :
        /\ running[i].state = "Running"
        /\ running' = Exited(i, "Failed", code)
    /\ engineFrame

\* requestCancellation() from outside the front-end (4.5: an asynchronous
\* signal), such as an interrupt sent to the engine process itself.
requestCancellation ==
    /\ \E i \in Wipes :
        /\ running[i].state = "Running"
        /\ ~running[i].cancellationRequested
        /\ running' = [running EXCEPT ![i].cancellationRequested = TRUE]
    /\ engineFrame

\* ------------------- the engine's wipe session (from the design document)

\* The capacity of the target, in chunks.
ChunksPerPass == 2

\* The bytes of one chunk.
ChunkSize == 2

totalBytesForTarget == ChunksPerPass * ChunkSize

Plan_FormatEachRound(mode, passes) ==
    CASE mode = "quick" -> <<"release", "format">>
      [] mode = "secure" -> <<"overwrite", "format", "fill", "format">>
      [] mode = "paranoid" -> [i \in 1..(2 * passes) |-> IF i % 2 = 1 THEN "overwrite" ELSE "format"]
      [] mode = "legacy-fast" -> <<"metadata", "format">>

\* The steps of a mode, in order (4.4, 'Per mode, the pass sequence').
Plan(mode, passes) ==
    CASE mode = "quick" -> <<"release", "format">>
      [] mode = "secure" -> <<"overwrite", "format", "fill", "format">>
      [] mode = "paranoid" -> [i \in 1..passes |-> "overwrite"] \o <<"format">>
      [] mode = "legacy-fast" -> <<"metadata", "format">>

\* The steps that write the device chunk by chunk.
Chunked(step) == step \in {"overwrite", "fill", "metadata"}

\* The bytes a chunked step writes: the full target, or the leading
\* metadata window.
Extent(step) == IF step = "metadata" THEN ChunkSize ELSE totalBytesForTarget

\* The WipeRequests: mode, passes (given for paranoid, the default
\* otherwise) and whether the resolved DriveRecord is a system volume.
Requests ==
    {[mode |-> m, passes |-> n, isSystemVolume |-> b] :
        m \in EngineModes \ {"paranoid"}, n \in {DefaultPasses}, b \in BOOLEAN}
    \cup {[mode |-> "paranoid", passes |-> n, isSystemVolume |-> b] :
            n \in (MinPasses - 1)..(MaxPasses + 1), b \in BOOLEAN}

\* The Safety Guard (4.2) on a request.
RequestValid(req) ==
    ~req.isSystemVolume /\ req.passes \in MinPasses..MaxPasses

\* The WipeSession (3) created for a request, with what was observable of
\* it so far: the passes begun, the phases begun, the format invocations and
\* the percentages of the progress events of the current pass.
NewSession(req) ==
    [request |-> req, state |-> "Idle", step |-> 0, currentPass |-> 0,
     bytesWrittenInPass |-> 0, busy |-> FALSE, done |-> FALSE,
     cancellationRequested |-> FALSE, passLog |-> <<>>, phases |-> <<>>,
     formats |-> 0, progress |-> <<>>, signal |-> null, exitCode |-> null]

S == session[1]

PlanOf(s) == Plan(s.request.mode, s.request.passes)

\* The session has ended: in a terminal state of 4.4, or with its process
\* terminated from outside ("Killed").
Terminal(s) == s.state \in {"Completed", "Cancelled", "Failed", "Killed"}

\* The session at the start of step k of its plan.
EnterStep(s, k) ==
    LET st == PlanOf(s)[k]
    IN  IF Chunked(st)
        THEN [s EXCEPT !.state = "Wiping", !.step = k, !.done = FALSE,
                       !.currentPass = s.currentPass + 1,
                       !.passLog = Append(s.passLog, s.currentPass + 1),
                       !.bytesWrittenInPass = 0, !.progress = <<>>,
                       !.phases = Append(s.phases, st)]
        ELSE [s EXCEPT !.state = IF st = "format" THEN "Formatting" ELSE "Wiping",
                       !.step = k, !.done = FALSE,
                       !.phases = Append(s.phases, st)]

StepFinished_AnyBoundary(s) == s.step > 0 /\ ~s.busy

\* The current step has done all its work.
StepFinished(s) ==
    /\ s.step > 0 /\ ~s.busy
    /\ IF Chunked(PlanOf(s)[s.step])
       THEN s.bytesWrittenInPass = Extent(PlanOf(s)[s.step])
       ELSE s.done

frontEnd == <<program, isWindows, isRoot, pc, sessions, drives, scan, targetPath,
              resolvedPath, wipeMode, filesystem, passesArg, confirmation,
              pythonProcess, spinnerInterval, timers, stdinListener, running, spawned,
              reported, closed, steps, uidChecked, ctrlC, display>>

\* What the output handlers leave alone.
offDisplay == <<program, isWindows, isRoot, sessions, drives, scan, targetPath,
                resolvedPath, wipeMode, filesystem, passesArg, confirmation,
                pythonProcess, spinnerInterval, timers, stdinListener, running, spawned,
                reported, closed, steps, uidChecked, ctrlC, session>>

\* Idle -> Validating.
sessionStart ==
    /\ S.state = "Idle" /\ ~S.cancellationRequested
    /\ session' = Handle([S EXCEPT !.state = "Validating"])
    /\ UNCHANGED frontEnd

\* Validating -> Wiping(1), or Validating -> Failed: no bytes written.
sessionValidate ==
    /\ S.state = "Validating" /\ ~S.cancellationRequested
    /\ session' = Handle(IF RequestValid(S.request) THEN EnterStep(S, 1)
                         ELSE [S EXCEPT !.state = "Failed", !.exitCode = Handle(1)])
    /\ UNCHANGED frontEnd

\* Quick: the space is released, a single step without a byte pattern.
sessionRelease ==
    /\ S.state = "Wiping" /\ PlanOf(S)[S.step] = "release"
    /\ ~S.done /\ ~S.cancellationRequested
    /\ session' = Handle([S EXCEPT !.done = TRUE])
    /\ UNCHANGED frontEnd

\* A chunk boundary at which the flag is not set: the write of the next
\* chunk begins.
chunkBegin ==
    /\ S.state = "Wiping" /\ Chunked(PlanOf(S)[S.step]) /\ ~S.busy
    /\ S.bytesWrittenInPass < Extent(PlanOf(S)[S.step])
    /\ ~S.cancellationRequested
    /\ session' = Handle([S EXCEPT !.busy = TRUE,
                                   !.bytesWrittenInPass = S.bytesWrittenInPass + 1])
    /\ UNCHANGED frontEnd

Percentage_OfChunk(bytes) == (bytes * 100) \div ChunkSize

\* percentage = bytesWrittenInPass / totalBytesForTarget * 100
Percentage(bytes) == (bytes * 100) \div totalBytesForTarget

\* The write of the chunk is acknowledged: bytesWrittenInPass is updated
\* and, unless throttled, a progress event emitted.
chunkEnd ==
    /\ S.state = "Wiping" /\ S.busy
    /\ LET bytes == S.bytesWrittenInPass - 1 + ChunkSize
       IN  \E emit \in BOOLEAN :
             session' = Handle([S EXCEPT !.busy = FALSE,
                                         !.bytesWrittenInPass = bytes,
                                         !.progress = IF emit
                                                      THEN Append(S.progress, Percentage(bytes))
                                                      ELSE S.progress])
    /\ UNCHANGED frontEnd

\* Formatting: the filesystem creation is invoked.
formatBegin ==
    /\ S.state = "Formatting" /\ ~S.busy /\ ~S.done /\ ~S.cancellationRequested
    /\ session' = Handle([S EXCEPT !.busy = TRUE, !.formats = S.formats + 1])
    /\ UNCHANGED frontEnd

\* Formatting: the filesystem creation succeeds.
formatEnd ==
    /\ S.state = "Formatting" /\ S.busy
    /\ session' = Handle([S EXCEPT !.busy = FALSE, !.done = TRUE])
    /\ UNCHANGED frontEnd

\* Wiping(i) -> Wiping(i+1), Wiping(N) -> Formatting, Formatting ->
\* Completed (exit code 0): the step is finished and the flag is not set.
sessionAdvance ==
    /\ ~Terminal(S) /\ StepFinished(S) /\ ~S.cancellationRequested
    /\ session' = Handle(IF S.step < Len(PlanOf(S)) THEN EnterStep(S, S.step + 1)
                         ELSE [S EXCEPT !.state = "Completed", !.exitCode = Handle(0)])
    /\ UNCHANGED frontEnd

\* Wiping or Formatting -> Failed: the write or the format in progress
\* fails; no retry.
sessionError ==
    /\ S.state \in {"Wiping", "Formatting"} /\ S.busy
    /\ session' = Handle([S EXCEPT !.state = "Failed", !.busy = FALSE,
                                   !.exitCode = Handle(1)])
    /\ UNCHANGED frontEnd

\* requestCancellation() (4.5): callable at any time, also during a write.
\* It is how a signal the engine receives is handled.
sessionRequestCancellation ==
    /\ ~Terminal(S) /\ ~S.cancellationRequested
    /\ ~(program = "part_000" /\ isWindows)
    /\ session' = Handle([S EXCEPT !.cancellationRequested = TRUE])
    /\ UNCHANGED frontEnd

\* pythonProcess.kill('SIGTERM') of the earlier front-end on Windows: the
\* engine is terminated at once, wherever it is, and handles nothing.
sessionKilled ==
    /\ program = "part_000" /\ isWindows
    /\ ~Terminal(S)
    /\ session' = Handle([S EXCEPT !.state = "Killed", !.signal = Handle("SIGTERM")])
    /\ UNCHANGED frontEnd

\* any state -> Cancelled: the flag is observed at a chunk boundary, never
\* during a write; exit code 130.
sessionCancelled ==
    /\ ~Terminal(S) /\ S.cancellationRequested /\ ~S.busy
    /\ session' = Handle([S EXCEPT !.state = "Cancelled", !.exitCode = Handle(130)])
    /\ UNCHANGED frontEnd

\* ------------------------------------------- the engine's output, displayed

\* How many lines the engine writes during one wipe.
MaxLines == 2

\* The records of 4.6 the engine emits during a wipe. A field a record
\* does not have reads as undefined.
\* The largest percentage of a progress event (4.4, 8).
MaxPercentage == 100

\* The percentages a progress event may carry.
Percentages == 0..MaxPercentage

\* The progress record with percentage p.
Progress(p) ==
    [type |-> "progress", phase |-> "Pass 1/3", message |-> "undefined",
     percentage |-> Handle(p)]

StatusRecord ==
    [type |-> "status", phase |-> "undefined", message |-> "pass started",
     percentage |-> null]

ErrorRecord ==
    [type |-> "error", phase |-> "undefined", message |-> "device busy",
     percentage |-> null]

\* The records of 4.6 the engine emits during a wipe. A field a record
\* does not have reads as undefined.
JsonRecords == {Progress(p) : p \in Percentages} \cup {StatusRecord, ErrorRecord}

\* The first piece of the line of a progress record; the second is its
\* percentage, with the closing brace.
ProgressHead == "{\"type\":\"progress\",\"phase\":\"Pass 1/3\",\"percentage\":"

\* The line of a record, without its line end, in two pieces.
Text(rec) ==
    CASE rec.type = "progress" -> <<ProgressHead, ToString(rec.percentage[1])>>
      [] rec.type = "status" -> <<"{\"type\":\"status\",", "\"message\":\"pass started\"}">>
      [] rec.type = "error" -> <<"{\"type\":\"error\",", "\"message\":\"device busy\"}">>

\* Output of the system tools the engine runs, which is no JSON.
RawLines == {<<"mke2fs 1.46.5">>}

\* The lines the engine writes during the wipe observed: its records, with
\* one progress record at 50 percent, and tool output.
LineTexts == {Text(Progress(50)), Text(StatusRecord), Text(ErrorRecord)} \cup RawLines

\* JSON.parse: the record of a text that is one complete record, a
\* SyntaxError (null here) for any other text.
JSONparse(text) ==
    IF text = Text(StatusRecord) THEN Handle(StatusRecord)
    ELSE IF text = Text(ErrorRecord) THEN Handle(ErrorRecord)
    ELSE IF Len(text) = 2 /\ text[1] = ProgressHead
                          /\ \E p \in Percentages : ToString(p) = text[2]
         THEN Handle(Progress(CHOOSE p \in Percentages : ToString(p) = text[2]))
         ELSE null

RECURSIVE SplitLinesAcc(_, _, _)
SplitLinesAcc(s, cur, acc) ==
    IF Len(s) = 0 THEN Append(acc, cur)
    ELSE IF s[1] = "\n" THEN SplitLinesAcc(Tail(s), <<>>, Append(acc, cur))
    ELSE SplitLinesAcc(Tail(s), Append(cur, s[1]), acc)

\* String.prototype.split('\n'): an empty string gives one empty line.
SplitLines(s) == SplitLinesAcc(s, <<>>, <<>>)

\* The engine writes one line, with its line end, to stdout or stderr.
engineWrites ==
    /\ pc = "wiping" /\ Len(emitted) < MaxLines
    /\ \E ch \in Channels, text \in LineTexts :
        /\ pipes' = [pipes EXCEPT ![ch] = pipes[ch] \o text \o <<"\n">>]
        /\ emitted' = Append(emitted, [channel |-> ch, text |-> text])
    /\ UNCHANGED <<offDisplay, pc, received, logMessages, currentPhase, console>>

\* index.js, addLog: one entry at the end of the log (the time of day it
\* starts with is left out).
addLog(log, message, type) ==
    Append(log, [prefix |-> CASE type = "error" -> "ERROR"
                              [] type = "status" -> "INFO"
                              [] OTHER -> "LOG",
                 message |-> message])

processLine_LogsProgress(ui, line) ==
    LET jsonData == JSONparse(line)
    IN  IF jsonData = null THEN [ui EXCEPT !.logMessages = addLog(ui.logMessages, line, "raw")]
        ELSE [ui EXCEPT !.currentPhase = IF jsonData[1].type = "progress"
                                          THEN jsonData[1].phase ELSE ui.currentPhase,
                        !.logMessages =
                            addLog(ui.logMessages, <<jsonData[1].message>>, jsonData[1].type)]

\* index.js, processOutput for one line: what becomes of currentPhase and
\* logMessages.
processLine(ui, line) ==
    LET jsonData == JSONparse(line)
    IN  IF jsonData = null THEN [ui EXCEPT !.logMessages = addLog(ui.logMessages, line, "raw")]
        ELSE IF jsonData[1].type = "progress"
             THEN [ui EXCEPT !.currentPhase = jsonData[1].phase]
             ELSE [ui EXCEPT !.logMessages =
                       addLog(ui.logMessages, <<jsonData[1].message>>, jsonData[1].type)]

RECURSIVE processOutput(_, _)
\* index.js, processOutput: the lines of a chunk, one after the other.
processOutput(ui, lines) ==
    IF Len(lines) = 0 THEN ui
    ELSE processOutput(processLine(ui, lines[1]), Tail(lines))

\* The lines a handler took from a chunk, with the record each was parsed to.
Taken(ch, lines, parsing) ==
    [i \in 1..Len(lines) |->
        [channel |-> ch, line |-> lines[i],
         event |-> IF parsing THEN JSONparse(lines[i]) ELSE null]]

\* index.js: a 'data' event of stdout or stderr with the next n tokens.
onData ==
    /\ program = "index.js" /\ pc = "wiping"
    /\ \E ch \in Channels :
        \E n \in 1..Len(pipes[ch]) :
          LET data == SubSeq(pipes[ch], 1, n)
              lines == SplitLines(trim(data))
              ui == processOutput([currentPhase |-> currentPhase,
                                   logMessages |-> logMessages], lines)
          IN  /\ pipes' = [pipes EXCEPT ![ch] = SubSeq(pipes[ch], n + 1, Len(pipes[ch]))]
              /\ currentPhase' = ui.currentPhase
              /\ logMessages' = ui.logMessages
              /\ received' = received \o Taken(ch, lines, TRUE)
    /\ UNCHANGED <<offDisplay, pc, emitted, console>>

\* String.prototype.repeat: a negative count throws a RangeError.
repeat(ch, n) == IF n < 0 THEN <<"RangeError">> ELSE [i \in 1..n |-> ch]

\* progressBar with one cell for every percent.
progressBar_CellPerPercent(percentage) ==
    repeat("#", percentage) \o repeat(".", 50 - percentage)

\* part_000: the progress bar the stdout handler draws for a percentage,
\* filled cells "#" and empty cells ".".
progressBar(percentage) ==
    repeat("#", percentage \div 2) \o repeat(".", 50 - (percentage \div 2))

\* Drawing the bar throws: one of its two counts is negative.
progressBarThrows(percentage) ==
    percentage \div 2 < 0 \/ 50 - (percentage \div 2) < 0

\* part_000: what the stdout handler prints for a chunk: for a progress
\* record its phase, the bar and the percentage; an exception in the try
\* block, of JSON.parse or of repeat, prints the chunk as it is.
stdoutPrinted(message) ==
    LET jsonData == JSONparse(message)
    IN  IF jsonData = null THEN <<[tag |-> "ENGINE", message |-> message]>>
        ELSE CASE jsonData[1].type = "progress" ->
                    IF progressBarThrows(jsonData[1].percentage[1])
                    THEN <<[tag |-> "ENGINE", message |-> message]>>
                    ELSE <<[tag |-> jsonData[1].phase,
                            message |-> progressBar(jsonData[1].percentage[1])
                                            \o <<ToString(jsonData[1].percentage[1])>>]>>
               [] jsonData[1].type = "status" ->
                    <<[tag |-> "ENGINE", message |-> <<jsonData[1].message>>]>>
               [] jsonData[1].type = "error" ->
                    <<[tag |-> "ENGINE_ERROR", message |-> <<jsonData[1].message>>]>>
               [] OTHER -> <<>>

\* part_000: a 'data' event of stdout with the next n tokens.
onStdout0 ==
    /\ program = "part_000" /\ pc = "wiping"
    /\ \E n \in 1..Len(pipes.stdout) :
          LET message == trim(SubSeq(pipes.stdout, 1, n))
          IN  /\ pipes' = [pipes EXCEPT !.stdout = SubSeq(pipes.stdout, n + 1, Len(pipes.stdout))]
              /\ IF Len(message) > 0
                 THEN /\ console' = console \o stdoutPrinted(message)
                      /\ received' = received \o Taken("stdout", <<message>>, TRUE)
                 ELSE UNCHANGED <<console, received>>
    /\ UNCHANGED <<offDisplay, pc, emitted, logMessages, currentPhase>>

\* part_000: a 'data' event of stderr with the next n tokens.
onStderr0 ==
    /\ program = "part_000" /\ pc = "wiping"
    /\ \E n \in 1..Len(pipes.stderr) :
          LET message == trim(SubSeq(pipes.stderr, 1, n))
          IN  /\ pipes' = [pipes EXCEPT !.stderr = SubSeq(pipes.stderr, n + 1, Len(pipes.stderr))]
              /\ IF Len(message) > 0
                 THEN /\ console' = Append(console, [tag |-> "ENGINE_ERROR", message |-> message])
                      /\ received' = received \o Taken("stderr", <<message>>, FALSE)
                 ELSE UNCHANGED <<console, received>>
    /\ UNCHANGED <<offDisplay, pc, emitted, logMessages, currentPhase>>

\* The 'close' event: the engine has exited and both streams are at their
\* end. index.js prints the final log.
finalLog ==
    /\ pc = "wiping"
    /\ \A ch \in Channels : pipes[ch] = <<>>
    /\ pc' = "closed"
    /\ console' = IF program = "index.js" THEN console \o logMessages ELSE console
    /\ UNCHANGED <<offDisplay, pipes, emitted, received, logMessages, currentPhase>>

\* ------------------------------------------------------------ specifications

EngineNext == engineCompletes \/ engineCancelled \/ engineFails \/ requestCancellation

NextIndex ==
    \/ main_wipe \/ main_exit \/ getDrives_listed \/ getDrives_fallback
    \/ selectTarget \/ selectMode \/ selectFs \/ enterPasses \/ confirm \/ timer
    \/ close \/ pressEnter \/ ctrlC_pressed \/ terminal_SIGINT
    \/ EngineNext

NextPart000 ==
    \/ main0_scan \/ scan_listed \/ scan_enter \/ main0_wipe \/ main_exit
    \/ getDrives0_listed \/ selectTarget0 \/ selectMode0 \/ confirm0 \/ timer
    \/ stdin_ctrlC0 \/ terminal_SIGINT \/ close0 \/ stdin_exit0
    \/ EngineNext

Next == NextIndex \/ NextPart000

\* Both front-ends.
Spec == Init /\ [][Next]_vars

InitIndex == Init /\ program = "index.js"

\* The front-end of src/index.js.
SpecIndex == InitIndex /\ [][NextIndex]_vars

InitPart000 == Init /\ program = "part_000"

\* The front-end of src/unnamed/part_000.
SpecPart000 == InitPart000 /\ [][NextPart000]_vars

\* One run of the engine for a request given on its command line.
InitSession ==
    /\ program \in Programs
    /\ isWindows \in BOOLEAN
    /\ isRoot = ~isWindows
    /\ pc = "wiping"
    /\ sessions = 0
    /\ drives = <<>> /\ scan = null
    /\ targetPath = <<>> /\ resolvedPath = <<>> /\ wipeMode = "" /\ filesystem = ""
    /\ passesArg = <<>> /\ confirmation = <<>>
    /\ pythonProcess = null /\ spinnerInterval = null /\ timers = {}
    /\ stdinListener = "none"
    /\ running = <<>> /\ spawned = 0
    /\ reported = <<>> /\ closed = null
    /\ steps = {} /\ uidChecked = FALSE /\ ctrlC = 0
    /\ NoOutput
    /\ \E req \in Requests : session = Handle(NewSession(req))

NextSession ==
    \/ sessionStart
    \/ sessionValidate
    \/ sessionRelease
    \/ chunkBegin
    \/ chunkEnd
    \/ formatBegin
    \/ formatEnd
    \/ sessionAdvance
    \/ sessionError
    \/ sessionRequestCancellation
    \/ sessionKilled
    \/ sessionCancelled

SpecSession == InitSession /\ [][NextSession]_vars

\* The output of one engine run, as a front-end displays it.
InitOutput ==
    /\ program \in Programs
    /\ isWindows = FALSE /\ isRoot = TRUE
    /\ pc = "wiping"
    /\ sessions = 0
    /\ drives = <<>> /\ scan = null
    /\ targetPath = <<>> /\ resolvedPath = <<>> /\ wipeMode = "" /\ filesystem = ""
    /\ passesArg = <<>> /\ confirmation = <<>>
    /\ pythonProcess = null /\ spinnerInterval = null /\ timers = {}
    /\ stdinListener = "none"
    /\ running = <<>> /\ spawned = 0
    /\ reported = <<>> /\ closed = null
    /\ steps = {} /\ uidChecked = FALSE /\ ctrlC = 0
    /\ session = null
    /\ NoOutput

NextOutput ==
    \/ engineWrites
    \/ onData
    \/ onStdout0
    \/ onStderr0
    \/ finalLog

SpecOutput == InitOutput /\ [][NextOutput]_vars

\* The earlier front-end with one progress record of the engine on its way
\* through stdout.
InitProgress ==
    /\ program = "part_000"
    /\ isWindows = FALSE /\ isRoot = TRUE
    /\ pc = "wiping"
    /\ sessions = 0
    /\ drives = <<>> /\ scan = null
    /\ targetPath = <<>> /\ resolvedPath = <<>> /\ wipeMode = "" /\ filesystem = ""
    /\ passesArg = <<>> /\ confirmation = <<>>
    /\ pythonProcess = null /\ spinnerInterval = null /\ timers = {}
    /\ stdinListener = "none"
    /\ running = <<>> /\ spawned = 0
    /\ reported = <<>> /\ closed = null
    /\ steps = {} /\ uidChecked = FALSE /\ ctrlC = 0
    /\ session = null
    /\ received = <<>> /\ logMessages = <<>> /\ currentPhase = "Initializing..."
    /\ console = <<>>
    /\ \E p \in Percentages :
          /\ emitted = <<[channel |-> "stdout", text |-> Text(Progress(p))]>>
          /\ pipes = [ch \in Channels |->
                        IF ch = "stdout" THEN Text(Progress(p)) \o <<"\n">> ELSE <<>>]

NextProgress == onStdout0 \/ finalLog

SpecProgress == InitProgress /\ [][NextProgress]_vars

\* ------------------------------------------------------------------ claims

\* The --path, --mode and --passes arguments of the i-th child (null when
\* the option is not given).
PathOf(r, i) == OptValue(r[i].args, {<<"--path">>, <<"-p">>})

ModeOf(r, i) == OptValue(r[i].args, {<<"--mode">>, <<"-m">>})

PassesOf(r, i) == OptValue(r[i].args, {<<"--passes">>})

\* This step spawns a wipe session (the new child is the last of running').
WipeSpawned ==
    /\ Len(running') > 0
    /\ Len(running') \in WipesOf(running')
    /\ Last(running').pid > spawned

\* C1: no engine process is spawned by startWipeProcess with a --path that
\* names a system volume, whichever enumeration filled the menu.
C1_NoSystemVolumeWiped ==
    \A i \in Wipes :
        PathOf(running, i) # null => ~IsSystemVolume(PathOf(running, i)[1], isWindows)

\* C2: when the close handler has run, it has printed exactly one outcome,
\* and the exit code decides which: 0 completed, 130 cancelled, any other
\* code and null failed.
C2_ExitCodeDecidesOutcome ==
    closed # null =>
        LET code == closed[1].exitCode
        IN  /\ Len(reported) = 1
            /\ code = Handle(0) => reported[1] = "completed"
            /\ code = Handle(130) => reported[1] = "cancelled"
            /\ code \notin {Handle(0), Handle(130)} => reported[1] = "failed"

\* C2 happens: a close with a null exit code was reported as failed.
C2_Witness ==
    closed # null /\ closed[1].exitCode = null /\ reported = <<"failed">>

\* C3: at most one engine process runs at any time.
C3_AtMostOneEngine == Cardinality(Engines) <= 1

\* C3 happens: an engine process runs that was spawned after an earlier
\* wipe session's engine had closed.
C3_Witness ==
    /\ pythonProcess # null
    /\ \E i \in Engines : running[i].pid > pythonProcess[1]

\* C4: every Ctrl+C pressed while the engine runs results in a termination
\* signal delivered to the engine process, whichever way the terminal hands
\* the Ctrl+C on.
C4_CtrlCReachesEngine ==
    \A i \in Wipes : ctrlC > 0 => running[i].signal # null

\* A child that ended because of the operator's cancellation: the engine
\* observed the request and ended Cancelled, or the front-end's kill ended it.
EndedByCancellation(child) == child.state \in {"Cancelled", "Killed"}

\* C5: a wipe session that ended because the operator cancelled it is
\* reported as cancelled, neither as completed nor as failed.
C5_CancelledIsReportedCancelled ==
    (closed # null /\ EndedByCancellation(closed[1])) => reported = <<"cancelled">>

\* The target the final confirmation banner shows.
ShownTarget == IF program = "index.js" THEN targetPath ELSE resolvedPath

\* What a path names, whatever its spelling: whether it starts at the root,
\* and its segments, lower-cased, without surrounding blanks, empty and "."
\* segments.
PathKey(p, win) ==
    LET t == toLowerCase(trim(p))
    IN  <<Len(t) > 0 /\ IsSepOn(t[1], win), NormSegs(Split(t, win), FALSE, <<>>)>>

\* C6: a wipe session is spawned only by the confirmation step, for the
\* target shown and with a typed confirmation that names it; a confirmation
\* that does not name the target spawns nothing and leads back to main.
C6_ConfirmedBeforeSpawn ==
    [][ /\ WipeSpawned =>
            /\ pc = "confirm"
            /\ PathOf(running', Len(running')) = Handle(ShownTarget)
            /\ PathKey(confirmation', isWindows) = PathKey(ShownTarget, isWindows)
        /\ (pc = "confirm" /\ PathKey(confirmation', isWindows) # PathKey(ShownTarget, isWindows)) =>
            /\ running' = running
            /\ pc' = "timer"
      ]_vars

\* C6 happens: the engine runs after a confirmation that is spelled
\* differently from the target and still names it.
C6_Witness ==
    /\ pc = "wiping" /\ Wipes # {}
    /\ confirmation # ShownTarget

\* C7: a wipe session is spawned only by the confirmation step of a flow in
\* which the target and the method were chosen after the last spawn; no
\* close handler spawns one.
C7_NoAutomaticRetry ==
    [][ WipeSpawned =>
            /\ pc = "confirm"
            /\ {"target", "mode"} \subseteq steps
            /\ Engines = {}
      ]_vars

\* C7 happens: after a wipe session has closed, the operator is at the
\* confirmation prompt again.
C7_Witness ==
    /\ pc = "confirm" /\ pythonProcess # null /\ Wipes = {}
    /\ {"target", "mode"} \subseteq steps

\* The modes that destroy data.
DestructiveModes == {<<"quick">>, <<"secure">>, <<"paranoid">>, <<"legacy-fast">>}

\* C8: every wipe session's arguments name a filesystem.
C8_FilesystemAlwaysGiven ==
    \A i \in Wipes :
        (ModeOf(running, i) # null /\ ModeOf(running, i)[1] \in DestructiveModes)
            => HasOpt(running[i].args, {<<"--filesystem">>, <<"-f">>})

\* C9: an engine invocation of index.js carries --passes exactly when its
\* mode is paranoid, and the value is an integer from 1 to 10.
C9_PassesOnlyForParanoid ==
    \A i \in Engines :
        /\ HasOpt(running[i].args, {<<"--passes">>}) <=> ModeOf(running, i) = Handle(<<"paranoid">>)
        /\ PassesOf(running, i) # null =>
              PassesOf(running, i)[1] \in {String(n) : n \in 1..10}

\* C9 happens: a paranoid wipe runs with the largest pass count.
C9_Witness ==
    \E i \in Wipes :
        /\ ModeOf(running, i) = Handle(<<"paranoid">>)
        /\ PassesOf(running, i) = Handle(String(10))

\* C10: every engine invocation of getDrives carries --list-drives and
\* --dry-run, and up to the target prompt no wipe session was started and
\* getuid() was not consulted.
C10_ListingIsHarmless ==
    /\ \A i \in Engines :
          running[i].by = "getDrives" =>
              /\ HasOpt(running[i].args, {<<"--list-drives">>})
              /\ HasOpt(running[i].args, {<<"--dry-run">>})
    /\ pc \in {"getDrives", "fallback", "selectTarget"} => (Wipes = {} /\ ~uidChecked)

\* C10 happens: a user who is not root is shown the drive list.
C10_Witness ==
    pc = "selectTarget" /\ ~isWindows /\ ~isRoot /\ Len(drives) > 0

\* A line of a platform listing whose device data can be read: the size is
\* a number in the column the parser looks at (df: the last column is a
\* mount point).
Readable(cmd, parts) ==
    CASE cmd = "lsblk" -> Len(parts) >= 3 /\ parts[3].isNum
      [] cmd = "wmic" /\ program = "index.js" -> Len(parts) >= 2 /\ parts[2].isNum
      [] cmd = "wmic" /\ program = "part_000" -> Len(parts) >= 3 /\ parts[3].isNum
      [] cmd = "df" -> Len(Last(parts).text) > 0 /\ Last(parts).text[1] = "/"
      [] OTHER -> FALSE

\* The menu value of a readable line.
ValueOf(cmd, parts) ==
    CASE cmd = "lsblk" -> parts[1].text
      [] cmd = "wmic" -> parts[1].text \o <<"\\">>
      [] cmd = "df" -> Last(parts).text
      [] OTHER -> <<>>

\* The device lines of a scan: all lines of lsblk -n, the lines after the
\* header of wmic and df.
DeviceLines(sc) ==
    IF sc.err \/ Len(sc.lines) = 0 THEN <<>>
    ELSE IF sc.cmd = "lsblk" THEN sc.lines ELSE Tail(sc.lines)

ReadableLines(sc) == SelectSeq(DeviceLines(sc), LAMBDA parts : Readable(sc.cmd, parts))

\* C11: getDrives always resolves. While it is pending a command runs whose
\* callback settles it; once a callback has settled it, the flow has gone on
\* to the target prompt, the scan display or (without drives) the way back
\* to main; a failed command yields the empty list, and the list of a
\* platform command holds exactly the readable lines, in order: unreadable
\* ones are left out, the others stay.
C11_ScanNeverFails ==
    /\ pc \in {"getDrives", "scan"} =>
          \E i \in 1..Len(running) : running[i].by = "getDrives"
    /\ pc = "fallback" =>
          \E i \in 1..Len(running) : running[i].cmd \in {"wmic", "lsblk"}
    /\ scan # null =>
          LET sc == scan[1]
          IN  /\ pc \in {"selectTarget", "timer", "scanShown"}
              /\ pc = "selectTarget" => Len(drives) > 0
              /\ pc = "timer" => Len(drives) = 0
              /\ sc.err => drives = <<>>
              /\ sc.cmd # "main.py" =>
                    /\ Len(drives) = Len(ReadableLines(sc))
                    /\ \A i \in 1..Len(drives) :
                          drives[i].value = ValueOf(sc.cmd, ReadableLines(sc)[i])

\* C11 happens: a platform listing with a line that cannot be read has
\* settled getDrives, and the devices of the other lines are listed.
C11_Witness ==
    /\ scan # null /\ scan[1].cmd # "main.py" /\ ~scan[1].err
    /\ Len(drives) > 0
    /\ Len(drives) < Len(DeviceLines(scan[1]))

\* This step is the answer of the confirmation prompt, and the answer
\* matches the target the way the running front-end compares them.
MatchingConfirmation ==
    /\ pc = "confirm" /\ pc' # "confirm"
    /\ IF program = "index.js"
       THEN ConfirmationMatches(confirmation', targetPath, isWindows)
       ELSE ConfirmationMatches0(confirmation', resolvedPath, isWindows)

\* C12: a matching confirmation starts the wipe, whatever the privileges of
\* the process.
C12_WipeNeedsNoPrivileges ==
    [][ MatchingConfirmation => WipeSpawned ]_vars

Upto(n) == [i \in 1..n |-> i]

\* C13: in a paranoid wipe with passes = P the current pass takes the values
\* 1..P once each and in increasing order, the P rounds are full-device
\* overwrites, and the single format is invoked only after the last of them.
C13_ParanoidRounds ==
    S.request.mode = "paranoid" /\ RequestValid(S.request) =>
        LET P == S.request.passes
        IN  /\ S.currentPass <= P /\ S.passLog = Upto(S.currentPass)
            /\ \A i \in 1..Len(S.phases) :
                  S.phases[i] = (IF i <= P THEN "overwrite" ELSE "format")
            /\ S.formats <= 1
            /\ S.formats = 1 =>
                  S.currentPass = P /\ S.bytesWrittenInPass = totalBytesForTarget
            /\ S.state = "Completed" => S.passLog = Upto(P) /\ S.formats = 1

C13_Witness ==
    /\ S.request.mode = "paranoid" /\ S.request.passes = 3
    /\ S.state = "Completed" /\ S.passLog = <<1, 2, 3>> /\ S.formats = 1

\* The operator has asked for the cancellation of the session.
CancellationAsked(s) == s.cancellationRequested \/ s.signal # null

\* C14: a session whose cancellation was requested ends, unless an I/O or
\* format error ends it first, in Cancelled, at a chunk boundary: the bytes
\* written in the current pass are a whole number of chunks and no write is
\* in progress.
C14_CancelledAtChunkBoundary ==
    Terminal(S) /\ CancellationAsked(S) /\ S.state # "Failed" =>
        /\ S.state = "Cancelled"
        /\ ~S.busy
        /\ S.bytesWrittenInPass % ChunkSize = 0

SecurePhases == <<"overwrite", "format", "fill", "format">>

C16_PercentageMonotoneBounded ==
    /\ \A i \in 1..Len(S.progress) :
          /\ S.progress[i] \in 0..100
          /\ Len(progressBar(S.progress[i])) = 50
          /\ i > 1 => S.progress[i - 1] <= S.progress[i]
    /\ S.bytesWrittenInPass < ChunkSize => S.progress = <<>>

C16_Witness ==
    /\ Len(S.progress) = ChunksPerPass
    /\ S.progress[1] < S.progress[ChunksPerPass]
    /\ S.progress[ChunksPerPass] = 100

\* The records a front-end has dispatched on, of those read from a channel.
EventsOn(ch) ==
    LET taken == SelectSeq(received, LAMBDA e : e.channel = ch /\ e.event # null)
    IN  [i \in 1..Len(taken) |-> taken[i].event[1]]

\* The records the engine has written to a channel.
RecordsOn(ch) ==
    LET lines == SelectSeq(emitted, LAMBDA l : l.channel = ch /\ JSONparse(l.text) # null)
    IN  [i \in 1..Len(lines) |-> JSONparse(lines[i].text)[1]]

\* C17: once the engine's output has been delivered, in whatever chunks, the
\* records the front-end has dispatched on are, channel by channel, the
\* records the engine wrote, each one once.
C17_OneEventPerRecord ==
    pc = "closed" => \A ch \in Channels : EventsOn(ch) = RecordsOn(ch)

\* A line the handler parsed as a progress record.
IsProgress(e) == e.event # null /\ e.event[1].type = "progress"

\* The log entry of a received line that is no progress record.
EntryOf(e) ==
    IF e.event = null THEN [prefix |-> "LOG", message |-> e.line]
    ELSE [prefix |-> IF e.event[1].type = "error" THEN "ERROR" ELSE "INFO",
          message |-> <<e.event[1].message>>]

\* The log, given the lines received: one entry for each line that is no
\* progress record, in the order of arrival.
LogOf(lines) ==
    LET logged == SelectSeq(lines, LAMBDA e : ~IsProgress(e))
    IN  [i \in 1..Len(logged) |-> EntryOf(logged[i])]

\* The phase, given the lines received: that of the last progress record.
PhaseOf(lines) ==
    LET progress == SelectSeq(lines, IsProgress)
    IN  IF Len(progress) = 0 THEN "Initializing..."
        ELSE Last(progress).event[1].phase

\* The log holds one entry for each line received so far that is no progress
\* record, in arrival order; the final log prints it whole.
LogInArrivalOrder ==
    program = "index.js" =>
        /\ logMessages = LogOf(received)
        /\ currentPhase = PhaseOf(received)
        /\ pc = "closed" => console = logMessages

\* A step keeps the entries of the log and adds, at its end, as many as it
\* received lines that are no progress records.
LogAppendOnly ==
    program = "index.js" =>
        /\ Len(logMessages') >= Len(logMessages)
        /\ SubSeq(logMessages', 1, Len(logMessages)) = logMessages
        /\ Len(logMessages') - Len(logMessages) =
              Len(SelectSeq(SubSeq(received', Len(received) + 1, Len(received')),
                            LAMBDA e : ~IsProgress(e)))

\* C18: the session log of index.js is append-only and in arrival order; a
\* progress line only replaces the current phase, every other line appends
\* exactly one entry, and the final log prints the entries as they are.
C18_LogAppendOnlyInOrder == [](LogInArrivalOrder) /\ [][LogAppendOnly]_vars

C18_Witness ==
    /\ program = "index.js" /\ pc = "closed"
    /\ Len(received) = 2 /\ IsProgress(received[1]) /\ ~IsProgress(received[2])
    /\ currentPhase = "Pass 1/3"
    /\ Len(logMessages) = 1 /\ console = logMessages

FilesystemOf(r, i) == OptValue(r[i].args, {<<"--filesystem">>, <<"-f">>})

\* The engine processes among the children r.
EnginesOf(r) == {i \in 1..Len(r) : r[i].cmd = "main.py"}

\* Every engine process is given a mode, which is one of quick, secure,
\* paranoid and legacy-fast, and the value of the Cancel choice is neither
\* its path, nor its mode, nor its filesystem.
ModeIsAWipeMode ==
    \A i \in EnginesOf(running) :
        /\ ModeOf(running, i) # null
        /\ \E m \in EngineModes : ModeOf(running, i)[1] = <<m>>
        /\ PathOf(running, i) # Handle(Cancel)
        /\ FilesystemOf(running, i) # Handle(<<"cancel">>)

\* A list prompt of the wipe sequence is left for the main menu.
PromptCancelled ==
    /\ pc \in {"selectTarget", "selectMode", "selectFs"}
    /\ pc' \in {"main", "timer"}

\* C19: the mode of every engine process is one of quick, secure, paranoid
\* and legacy-fast, 'cancel' never is its path, mode or filesystem, and
\* Cancel at the target, mode or filesystem prompt leads back to the main
\* menu without a process being spawned.
C19_CancelNeverReachesEngine ==
    [](ModeIsAWipeMode) /\ [][PromptCancelled => UNCHANGED <<running, spawned>>]_vars

C19_Witness ==
    /\ sessions = MaxSessions
    /\ \E i \in Wipes : ModeOf(running, i)[1] \in {<<"quick">>, <<"legacy-fast">>}

\* The confirmation step takes the typed confirmation as matching: it spawns
\* the engine or goes on to the root check.
ConfirmationAccepted ==
    /\ pc = "confirm"
    /\ WipeSpawned \/ (uidChecked' /\ ~uidChecked)

\* The target is not changed while the banner is shown, and it is what the
\* engine is given as --path.
TargetAsShown ==
    /\ pc = "confirm" => ShownTarget' = ShownTarget
    /\ WipeSpawned =>
          /\ pc = "confirm"
          /\ PathOf(running', Len(running')) = Handle(ShownTarget)

\* C20, as claimed: the --path of the engine is the target the banner shows,
\* unchanged since, and a confirmation is accepted only if it equals that
\* target after path normalization and case folding.
C20_AcceptedOnlyIfNormalizedEqual ==
    [][ /\ TargetAsShown
        /\ ConfirmationAccepted =>
              toLowerCase(normalize(confirmation', isWindows))
                  = toLowerCase(normalize(ShownTarget, isWindows))
      ]_vars

\* What the comparison makes of a path: normalized, then without
\* surrounding blanks (index.js) or without one trailing backslash
\* (part_000), then lower-cased.
Compared(p) ==
    toLowerCase(IF program = "index.js" THEN trim(normalize(p, isWindows))
                ELSE StripTrailingBackslash(normalize(p, isWindows)))

\* C20, amended: the --path of the engine is the target the banner shows,
\* unchanged since, and a confirmation is accepted only if it equals that
\* target after path normalization, the removal of surrounding blanks
\* (index.js) or of one trailing backslash (part_000), and case folding.
C20_AcceptedOnlyIfComparedEqual ==
    [][ /\ TargetAsShown
        /\ ConfirmationAccepted => Compared(confirmation') = Compared(ShownTarget)
      ]_vars

\* C20 happens: the engine runs for the target shown after a confirmation
\* that normalization and case folding alone do not make equal to it.
C20_Witness ==
    /\ pc = "wiping" /\ Wipes # {}
    /\ \A i \in Wipes : PathOf(running, i) = Handle(ShownTarget)
    /\ toLowerCase(normalize(confirmation, isWindows))
           # toLowerCase(normalize(ShownTarget, isWindows))

\* C21: as long as the front-end of index.js lives, the spinner timer is
\* active exactly while a wipe engine has been spawned and not yet closed;
\* it is the timer spinnerInterval names and the only one; once the close
\* handler has printed the outcome it is cleared, and at the main menu no
\* timer is active and no engine process runs.
C21_SpinnerWhileEngineRuns ==
    pc # "exited" =>
        /\ Cardinality(timers) <= 1
        /\ timers # {} <=> Wipes # {}
        /\ timers # {} => spinnerInterval # null /\ timers = {spinnerInterval[1]}
        /\ \A i \in Wipes : spinnerInterval = Handle(running[i].pid)
        /\ reported # <<>> => timers = {}
        /\ pc = "main" => timers = {} /\ Engines = {}

\* C21 happens: the main menu is shown again after a wipe; the timer
\* spinnerInterval still names was started with the engine and is cleared.
C21_Witness ==
    /\ pc = "main" /\ spinnerInterval # null
    /\ timers = {} /\ Engines = {}

\* A bar of 50 cells of which the first n are filled.
Cells(n) == [k \in 1..50 |-> IF k <= n THEN "#" ELSE "."]

\* C22: every progress record the earlier front-end reads is drawn, never
\* printed as a chunk that failed, with a bar of exactly 50 cells, the first
\* floor(percentage / 2) of them filled and the others empty: none filled
\* at 0, all at 100.
C22_ProgressBarFiftyCells ==
    \A i \in 1..Len(received) :
        IsProgress(received[i]) =>
            LET percentage == received[i].event[1].percentage[1]
                bar == SubSeq(console[i].message, 1, Len(console[i].message) - 1)
            IN  /\ i <= Len(console)
                /\ console[i].tag = received[i].event[1].phase
                /\ Last(console[i].message) = ToString(percentage)
                /\ Len(bar) = 50
                /\ bar = Cells(percentage \div 2)
                /\ percentage = 0 => \A k \in 1..50 : bar[k] = "."
                /\ percentage = MaxPercentage => \A k \in 1..50 : bar[k] = "#"

\* C22 happens: a progress record of 100 percent was read and drawn as a
\* full bar.
C22_Witness ==
    /\ pc = "closed" /\ Len(received) = 1 /\ IsProgress(received[1])
    /\ received[1].event[1].percentage = Handle(MaxPercentage)
    /\ Len(console) = 1 /\ console[1].message[50] = "#"

=============================================================================
